---- MODULE Spec2Model ----
(***************************************************************************)
(* Model of setup.py of gaia-star-radius.                                  *)
(*                                                                         *)
(* The script runs top to bottom: line 4 scans the directory bin/ with     *)
(* glob.glob('bin/*'), line 5 drops the paths that contain '~', lines 8-18 *)
(* call setup() with the metadata and the filtered list.                   *)
(*                                                                         *)
(* A path or a file name is a sequence of one-character strings, so that   *)
(* "contains '~'" and "starts with '.'" are computed character by          *)
(* character as Python computes them.                                      *)
(***************************************************************************)
EXTENDS FiniteSets, Integers, Sequences, TLC

\* ---------------------------------------------------------------- bounds
MaxEntries == 3      \* most direct entries of bin/
MaxNested  == 1      \* most files inside subdirectories of bin/

\* the file names tried as entries of bin/: plain, with '~' first, last or
\* alone, hidden with and without '~', and with a '.' that is not leading
Names ==
    { <<"a">>, <<"~">>, <<"a", "~">>, <<"~", "a">>,
      <<".", "a">>, <<".", "~">>, <<"a", ".">> }

\* the names tried for a file inside a subdirectory: one with and one
\* without the backup marker
NestedNames == {<<"a">>, <<"~">>}

RECURSIVE SubsetsUpTo(_, _)
SubsetsUpTo(S, k) ==
    IF k = 0 THEN {{}}
    ELSE LET P == SubsetsUpTo(S, k - 1)
         IN  P \cup {s \cup {x} : s \in P, x \in S}

Range(s) == {s[i] : i \in DOMAIN s}

\* the orders in which a directory listing can yield the names of S
Orderings(S) ==
    {s \in [1..Cardinality(S) -> S] : \A i, j \in DOMAIN s : s[i] = s[j] => i = j}

\* ----------------------------------------------------------------- state
VARIABLES
    binKind,      \* what "bin" is on disk: "missing", "file" or "dir"
    binEntries,   \* direct entries of bin/: name -> "file" | "dir"
    nested,       \* files one level down: <<directory name, file name>>
    pc,           \* the line of setup.py about to run
    scripts,      \* the module-level variable `scripts`
    setupCalls,   \* the keyword arguments of every setup() call made so far
    nscans,       \* how many times the file system was scanned
    scanned       \* what the scan of line 4 returned

vars == <<binKind, binEntries, nested, pc, scripts, setupCalls, nscans, scanned>>

\* ------------------------------------------------------- glob.glob('bin/*')
\* the directory part of the pattern 'bin/*' followed by the separator
\* os.path.join puts after it
BinPrefix == <<"b", "i", "n", "/">>

\* os.path.join('bin', name)
PathJoin(name) == BinPrefix \o name

\* os.path.join('bin', d, c): where a nested file lives
NestedPath(dc) == BinPrefix \o dc[1] \o <<"/">> \o dc[2]

\* glob._ishidden: the name starts with '.'
IsHidden(name) == name[1] = "."

\* glob._iterdir: the names os.scandir yields; an OSError (bin missing, bin
\* not a directory) is swallowed and nothing is yielded
ListdirRaising(kind, entries) ==
    IF kind = "dir" THEN [err |-> FALSE, names |-> DOMAIN entries]
    ELSE [err |-> TRUE, names |-> {}]

Listdir(kind, entries) ==
    IF kind = "dir" THEN [err |-> FALSE, names |-> DOMAIN entries]
    ELSE [err |-> FALSE, names |-> {}]

\* glob._glob1 with the pattern '*': the pattern is not hidden, so hidden
\* names are dropped; '*' then matches every remaining name
Glob1IncludeHidden(names) == names

Glob1(names) == {n \in names : ~IsHidden(n)}

\* the lists glob.glob('bin/*') can return: every matched name joined to
\* 'bin', in the order the directory listing happened to yield them
GlobNoMatchLiteral(kind, entries) ==
    LET m == Glob1(Listdir(kind, entries).names)
    IN  IF m = {} THEN {<< BinPrefix \o <<"*">> >>}
        ELSE {[i \in DOMAIN o |-> PathJoin(o[i])] : o \in Orderings(m)}

Glob(kind, entries) ==
    {[i \in DOMAIN o |-> PathJoin(o[i])] :
        o \in Orderings(Glob1(Listdir(kind, entries).names))}

\* ------------------------------------------------ line 5: the tilde filter
\* '~' in s, for a path s
HasTilde(s) == \E i \in DOMAIN s : s[i] = "~"

\* [s for s in lst if '~' not in s]: walk the list front to back and append
\* what passes the test
RECURSIVE ComprehensionFrom(_, _, _)
ComprehensionFrom(lst, i, acc) ==
    IF i > Len(lst) THEN acc
    ELSE ComprehensionFrom(lst, i + 1,
             IF HasTilde(lst[i]) THEN acc ELSE Append(acc, lst[i]))

RECURSIVE ComprehensionPrepending(_, _, _)
ComprehensionPrepending(lst, i, acc) ==
    IF i > Len(lst) THEN acc
    ELSE ComprehensionPrepending(lst, i + 1,
             IF HasTilde(lst[i]) THEN acc ELSE <<lst[i]>> \o acc)

FilterReversing(lst) == ComprehensionPrepending(lst, 1, << >>)

FilterKeepingTilde(lst) == lst

Filter(lst) == ComprehensionFrom(lst, 1, << >>)

\* ------------------------------------------------- lines 8-18: setup(...)
SetupKwargsCounting(s) ==
    [name    |-> "gaia-star-radius",
     version |-> IF Len(s) = 0 THEN "0.1.0" ELSE "0.1.1",
     scripts |-> s]

SetupKwargs(s) ==
    [name    |-> "gaia-star-radius",
     version |-> "0.1.0",
     scripts |-> s]

\* ------------------------------------------------------------------ Init
\* the script can be started on any content of the working directory
Init ==
    /\ binKind \in {"missing", "file", "dir"}
    /\ \E D \in SubsetsUpTo(Names, MaxEntries) :
          /\ binKind # "dir" => D = {}
          /\ binEntries \in [D -> {"file", "dir"}]
    /\ nested \in SubsetsUpTo(
                    {d \in DOMAIN binEntries : binEntries[d] = "dir"} \X NestedNames,
                    MaxNested)
    /\ pc = "line4"
    /\ scripts = << >>
    /\ setupCalls = << >>
    /\ nscans = 0
    /\ scanned = << >>

\* --------------------------------------------------------------- actions
\* line 4: scripts = glob.glob('bin/*')
Scan ==
    /\ pc = "line4"
    /\ IF Listdir(binKind, binEntries).err
       THEN /\ pc' = "raised"
            /\ UNCHANGED <<scripts, scanned>>
       ELSE /\ \E r \in Glob(binKind, binEntries) :
                  /\ scripts' = r
                  /\ scanned' = r
            /\ pc' = "line5"
    /\ nscans' = nscans + 1
    /\ UNCHANGED <<binKind, binEntries, nested, setupCalls>>

\* line 5: scripts = [s for s in scripts if '~' not in s]
FilterStep ==
    /\ pc = "line5"
    /\ scripts' = Filter(scripts)
    /\ pc' = "line8"
    /\ UNCHANGED <<binKind, binEntries, nested, setupCalls, nscans, scanned>>

\* lines 8-18 with a second scan in place of the variable
CallSetupRescanning ==
    /\ pc = "line8"
    /\ \E r \in Glob(binKind, binEntries) :
          /\ scripts' = Filter(r)
          /\ setupCalls' = Append(setupCalls, SetupKwargs(Filter(r)))
    /\ nscans' = nscans + 1
    /\ pc' = "done"
    /\ UNCHANGED <<binKind, binEntries, nested, scanned>>

\* lines 8-18: setup(name=..., scripts=scripts, version='0.1.0')
CallSetup ==
    /\ pc = "line8"
    /\ setupCalls' = Append(setupCalls, SetupKwargs(scripts))
    /\ pc' = "done"
    /\ UNCHANGED <<binKind, binEntries, nested, scripts, nscans, scanned>>

Next == Scan \/ FilterStep \/ CallSetup

Spec == Init /\ [][Next]_vars

\* the interpreter runs the script to its end: every enabled line is executed
FairSpec == Spec /\ WF_vars(Next)

\* ---------------------------------------------------------------- claims
\* the list setup() received, once it has been called
Passed == setupCalls[1].scripts

\* C1 (as stated): every file under bin/ (hidden or not, directly in bin/ or
\* inside a subdirectory) is in the list passed to setup() if and only if its
\* name has no '~'.
C1_AllFilesUnderBin ==
    pc = "done" =>
        /\ \A n \in DOMAIN binEntries :
              binEntries[n] = "file" =>
                  (PathJoin(n) \in Range(Passed)
                      <=> \A i \in DOMAIN n : n[i] # "~")
        /\ \A dc \in nested :
              (NestedPath(dc) \in Range(Passed)
                  <=> \A i \in DOMAIN dc[2] : dc[2][i] # "~")

\* C1 (amended): every file directly in bin/ whose name does not start with
\* '.' is in the list passed to setup() if and only if its name has no '~'.
C1_DirectVisibleFiles ==
    pc = "done" =>
        \A n \in DOMAIN binEntries :
            (binEntries[n] = "file" /\ n[1] # ".") =>
                (PathJoin(n) \in Range(Passed)
                    <=> \A i \in DOMAIN n : n[i] # "~")

C1_Witness ==
    /\ pc = "done"
    /\ \E n, m \in DOMAIN binEntries :
          /\ binEntries[n] = "file" /\ n[1] # "." /\ n[Len(n)] = "~"
          /\ binEntries[m] = "file" /\ m = <<"a">>
          /\ Passed = <<PathJoin(m)>>

\* C2: whatever bin/ holds, setup() is called with name "gaia-star-radius"
\* and version "0.1.0", and a finished run has made exactly that one call.
C2_Metadata ==
    /\ \A i \in DOMAIN setupCalls :
          /\ setupCalls[i].name = "gaia-star-radius"
          /\ setupCalls[i].version = "0.1.0"
    /\ pc = "done" => Len(setupCalls) = 1

C2_Witness ==
    /\ pc = "done"
    /\ Len(setupCalls) = 1
    /\ Len(Passed) = 2
    /\ \E n \in DOMAIN binEntries : n[Len(n)] = "~"

\* C3: started on an existing but empty bin/, the run gets through the scan
\* and the filter and ends having called setup() once with scripts = [].
C3_EmptyBin ==
    (binKind = "dir" /\ DOMAIN binEntries = {} /\ pc = "line4")
        ~> (pc = "done" /\ Len(setupCalls) = 1 /\ Passed = << >>)

C3_Witness ==
    /\ binKind = "dir"
    /\ DOMAIN binEntries = {}
    /\ pc = "done"
    /\ Len(setupCalls) = 1
    /\ Passed = << >>

\* C4: bin/ is scanned exactly once, before setup() is called; the list
\* setup() receives is the scan result without the paths that contain '~';
\* and after the filter the list never changes again.
C4_SingleScan ==
    /\ [](/\ nscans <= 1
          /\ pc # "line4" => nscans = 1
          /\ Len(setupCalls) > 0 =>
                Passed = SelectSeq(scanned,
                            LAMBDA p : \A i \in DOMAIN p : p[i] # "~"))
    /\ [][/\ nscans' # nscans => (setupCalls = << >> /\ setupCalls' = << >>)
          /\ pc \in {"line8", "done"} => scripts' = scripts]_vars

C4_Witness ==
    /\ pc = "done"
    /\ nscans = 1
    /\ Len(scanned) = 3
    /\ Len(Passed) = 2
    /\ scripts = Passed

\* C5: the filtered list is a sub-sequence of the scan result in the scan's
\* order; the entries left out are exactly those whose path contains '~';
\* nothing is added or duplicated; filtering the result again changes nothing.
C5_SubSequence ==
    pc \in {"line8", "done"} =>
        /\ \E f \in [DOMAIN scripts -> DOMAIN scanned] :
              /\ \A i, j \in DOMAIN scripts : i < j => f[i] < f[j]
              /\ \A i \in DOMAIN scripts : scripts[i] = scanned[f[i]]
        /\ \A i \in DOMAIN scanned :
              scanned[i] \in Range(scripts)
                  <=> \A k \in DOMAIN scanned[i] : scanned[i][k] # "~"
        /\ \A i, j \in DOMAIN scripts : scripts[i] = scripts[j] => i = j
        /\ Filter(scripts) = scripts

C5_Witness ==
    /\ pc = "line8"
    /\ Len(scanned) = 3
    /\ \E i \in DOMAIN scanned[2] : scanned[2][i] = "~"
    /\ scripts = <<scanned[1], scanned[3]>>

\* C6: no hidden entry of bin/ and no file inside a subdirectory of bin/ is
\* ever in the scan result, in the script list or in the list passed to
\* setup(), with or without '~' in its name; every listed path is a direct,
\* non-hidden entry of bin/.
C6_DirectVisibleOnly ==
    LET listed == Range(scanned) \cup Range(scripts)
                    \cup UNION {Range(setupCalls[i].scripts) : i \in DOMAIN setupCalls}
    IN  /\ \A n \in DOMAIN binEntries : n[1] = "." => PathJoin(n) \notin listed
        /\ \A dc \in nested : NestedPath(dc) \notin listed
        /\ \A p \in listed :
              \E n \in DOMAIN binEntries : n[1] # "." /\ p = PathJoin(n)

C6_Witness ==
    /\ pc = "done"
    /\ <<".", "a">> \in DOMAIN binEntries
    /\ \E d \in DOMAIN binEntries : <<d, <<"a">>>> \in nested
    /\ Len(scanned) = 2
    /\ Len(Passed) >= 1

\* C7: when bin/ does not exist the scan returns an empty list instead of
\* raising, and the run ends having called setup() once with scripts = [],
\* name "gaia-star-radius" and version "0.1.0".
C7_MissingBin ==
    (binKind = "missing" /\ pc = "line4")
        ~> /\ pc = "done"
           /\ scanned = << >>
           /\ setupCalls = << [name    |-> "gaia-star-radius",
                               version |-> "0.1.0",
                               scripts |-> << >>] >>

C7_Witness ==
    /\ binKind = "missing"
    /\ pc = "done"
    /\ nscans = 1
    /\ setupCalls = << [name    |-> "gaia-star-radius",
                        version |-> "0.1.0",
                        scripts |-> << >>] >>

====
